---- MODULE Spec2Model ----
(***************************************************************************)
(* Organization engine of bookmark-organizer:                              *)
(*   src/src/optimization/optimize_bookmarks.py  (FolderNode,              *)
(*   BookmarkOptimizer) with the tables of src/config.py.                  *)
(*                                                                         *)
(* Python str values are sequences of one-character strings, so that       *)
(* lower(), capitalize(), split(), substring tests, urlparse and the       *)
(* domain regex are computed character by character.  Python dict and list *)
(* objects live in two heaps (dicts, lists) indexed by object identity, so *)
(* that dict.copy() is the shallow copy it is in Python.                   *)
(***************************************************************************)
EXTENDS Integers, Sequences, FiniteSets, TLC

VARIABLES
    pc,                     \* position inside / after suggest_organization
    bookmarks,              \* self.bookmarks: sequence of dict identities
    dicts,                  \* heap of bookmark dicts: identity -> fields
    lists,                  \* heap of folder_path lists: identity -> contents
    seen_urls,              \* suggest_organization local
    total_unique_bookmarks, \* suggest_organization local
    features,               \* suggest_organization local
    bookmarks_to_cluster,   \* suggest_organization local
    clusters,               \* labels returned by fit_predict
    root,                   \* the FolderNode tree under construction
    bookmarks_bar_urls,     \* suggest_organization local
    removed,                \* number logged as "Removed N duplicate bookmarks"
    failure,                \* call whose exception the except clause caught
    cl_bm,                  \* argument of a stand-alone _is_frequently_used call
    cl_res,                 \* its result ("none" before the call)
    nm_bookmarks,           \* argument of a stand-alone _generate_cluster_name call
    nm_res,                 \* <<name>> it returned (<<>> before the call)
    cb_features,            \* features argument of a _cluster_bookmarks call
    cb_n_clusters,          \* its n_clusters argument
    cb_pc,                  \* position inside / after that call
    cb_res,                 \* labels it returned (<<>> before it returns)
    created,                \* FolderNode objects created by get_subfolder calls
    added                   \* add_bookmark calls made on the tree

vars == <<pc, bookmarks, dicts, lists, seen_urls, total_unique_bookmarks,
          features, bookmarks_to_cluster, clusters, root, bookmarks_bar_urls,
          removed, failure, cl_bm, cl_res, nm_bookmarks, nm_res,
          cb_features, cb_n_clusters, cb_pc, cb_res, created, added>>

engineVars == <<pc, bookmarks, dicts, lists, seen_urls, total_unique_bookmarks,
                features, bookmarks_to_cluster, clusters, root,
                bookmarks_bar_urls, removed, failure>>

classifyVars == <<cl_bm, cl_res>>

nameVars == <<nm_bookmarks, nm_res>>

clusterVars == <<cb_features, cb_n_clusters, cb_pc, cb_res>>

treeVars == <<created, added>>

\* everything a suggest_organization call does not touch
helperVars == <<classifyVars, nameVars, clusterVars, treeVars>>

-----------------------------------------------------------------------------
(* Bounds *)

\* longest input bookmark sequence
MaxLen == 3

-----------------------------------------------------------------------------
(* src/config.py *)

COMMON_WORDS ==
    { <<"t", "h", "e">>,
      <<"a">>,
      <<"a", "n">>,
      <<"a", "n", "d">>,
      <<"o", "r">>,
      <<"b", "u", "t">>,
      <<"i", "n">>,
      <<"o", "n">>,
      <<"a", "t">>,
      <<"t", "o">>,
      <<"f", "o", "r">>,
      <<"o", "f">>,
      <<"w", "i", "t", "h">>,
      <<"b", "y">>,
      <<"t", "h", "i", "s">>,
      <<"t", "h", "a", "t">>,
      <<"t", "h", "e", "s", "e">>,
      <<"t", "h", "o", "s", "e">>,
      <<"i", "s">>,
      <<"a", "r", "e">>,
      <<"w", "a", "s">>,
      <<"w", "e", "r", "e">>,
      <<"b", "e">>,
      <<"b", "e", "e", "n">>,
      <<"b", "e", "i", "n", "g">>,
      <<"h", "a", "v", "e">>,
      <<"h", "a", "s">>,
      <<"h", "a", "d">>,
      <<"d", "o">>,
      <<"d", "o", "e", "s">>,
      <<"d", "i", "d">>,
      <<"w", "i", "l", "l">>,
      <<"w", "o", "u", "l", "d">>,
      <<"s", "h", "o", "u", "l", "d">>,
      <<"c", "o", "u", "l", "d">>,
      <<"m", "a", "y">>,
      <<"m", "i", "g", "h", "t">>,
      <<"m", "u", "s", "t">>,
      <<"c", "a", "n">>,
      <<"y", "o", "u", "r">>,
      <<"m", "y">>,
      <<"o", "u", "r">>,
      <<"t", "h", "e", "i", "r">>,
      <<"h", "i", "s">>,
      <<"h", "e", "r">>,
      <<"i", "t", "s">>,
      <<"c", "o", "m">>,
      <<"o", "r", "g">>,
      <<"n", "e", "t">>,
      <<"e", "d", "u">>,
      <<"g", "o", "v">>,
      <<"i", "o">>,
      <<"w", "w", "w">>,
      <<"h", "o", "m", "e">>,
      <<"p", "a", "g", "e">>,
      <<"s", "i", "t", "e">>,
      <<"o", "f", "f", "i", "c", "i", "a", "l">>,
      <<"w", "e", "b", "s", "i", "t", "e">> }

TOOL_DOMAINS ==
    { <<"g", "o", "o", "g", "l", "e", ".", "c", "o", "m">>,
      <<"g", "m", "a", "i", "l", ".", "c", "o", "m">>,
      <<"g", "i", "t", "h", "u", "b", ".", "c", "o", "m">>,
      <<"s", "t", "a", "c", "k", "o", "v", "e", "r", "f", "l", "o", "w", ".", "c", "o", "m">>,
      <<"w", "i", "k", "i", "p", "e", "d", "i", "a", ".", "o", "r", "g">> }

CLASS_KEYWORDS ==
    { <<"c", "a", "n", "v", "a", "s">>,
      <<"c", "l", "a", "s", "s">>,
      <<"l", "e", "c", "t", "u", "r", "e">>,
      <<"h", "o", "m", "e", "w", "o", "r", "k">>,
      <<"a", "s", "s", "i", "g", "n", "m", "e", "n", "t">>,
      <<"c", "o", "u", "r", "s", "e">>,
      <<"s", "y", "l", "l", "a", "b", "u", "s">> }

\* FOLDER_PATH_THRESHOLD = 0.4 and SECONDARY_WORD_THRESHOLD = 0.4, in tenths
FOLDER_PATH_THRESHOLD == 4
SECONDARY_WORD_THRESHOLD == 4

\* TFIDF_PARAMS['min_df'] = 2, TFIDF_PARAMS['max_df'] = 0.8 (in tenths)
MIN_DF == 2
MAX_DF == 8

\* the literal 10 of min(10, len(bookmarks_to_cluster))
CLUSTER_CAP == 10

\* DOMAIN_CATEGORIES.items(), in the order the dict literal gives
DOMAIN_CATEGORIES ==
    << [key |-> <<"g", "o", "o", "g", "l", "e">>, value |-> 0],
       [key |-> <<"g", "m", "a", "i", "l">>, value |-> 0],
       [key |-> <<"y", "o", "u", "t", "u", "b", "e">>, value |-> 0],
       [key |-> <<"g", "i", "t", "h", "u", "b">>, value |-> 1],
       [key |-> <<"g", "i", "t", "l", "a", "b">>, value |-> 1],
       [key |-> <<"b", "i", "t", "b", "u", "c", "k", "e", "t">>, value |-> 1],
       [key |-> <<"a", "m", "a", "z", "o", "n">>, value |-> 2],
       [key |-> <<"e", "b", "a", "y">>, value |-> 2],
       [key |-> <<"w", "a", "l", "m", "a", "r", "t">>, value |-> 2],
       [key |-> <<"f", "a", "c", "e", "b", "o", "o", "k">>, value |-> 3],
       [key |-> <<"i", "n", "s", "t", "a", "g", "r", "a", "m">>, value |-> 3],
       [key |-> <<"t", "w", "i", "t", "t", "e", "r">>, value |-> 3],
       [key |-> <<"l", "i", "n", "k", "e", "d", "i", "n">>, value |-> 4],
       [key |-> <<"i", "n", "d", "e", "e", "d">>, value |-> 4],
       [key |-> <<"g", "l", "a", "s", "s", "d", "o", "o", "r">>, value |-> 4],
       [key |-> <<"s", "t", "a", "c", "k", "o", "v", "e", "r", "f", "l", "o", "w">>, value |-> 5],
       [key |-> <<"s", "t", "a", "c", "k", "e", "x", "c", "h", "a", "n", "g", "e">>, value |-> 5],
       [key |-> <<"q", "u", "o", "r", "a">>, value |-> 5],
       [key |-> <<"r", "e", "d", "d", "i", "t">>, value |-> 6],
       [key |-> <<"p", "i", "n", "t", "e", "r", "e", "s", "t">>, value |-> 6],
       [key |-> <<"t", "u", "m", "b", "l", "r">>, value |-> 6],
       [key |-> <<"d", "r", "o", "p", "b", "o", "x">>, value |-> 7],
       [key |-> <<"o", "n", "e", "d", "r", "i", "v", "e">>, value |-> 7],
       [key |-> <<"b", "o", "x">>, value |-> 7],
       [key |-> <<"n", "e", "t", "f", "l", "i", "x">>, value |-> 8],
       [key |-> <<"s", "p", "o", "t", "i", "f", "y">>, value |-> 8],
       [key |-> <<"h", "u", "l", "u">>, value |-> 8],
       [key |-> <<"w", "i", "k", "i", "p", "e", "d", "i", "a">>, value |-> 9],
       [key |-> <<"s", "c", "h", "o", "l", "a", "r">>, value |-> 9],
       [key |-> <<"r", "e", "s", "e", "a", "r", "c", "h">>, value |-> 9],
       [key |-> <<"n", "e", "w", "s">>, value |-> 10],
       [key |-> <<"r", "e", "u", "t", "e", "r", "s">>, value |-> 10],
       [key |-> <<"b", "l", "o", "o", "m", "b", "e", "r", "g">>, value |-> 10],
       [key |-> <<"w", "e", "a", "t", "h", "e", "r">>, value |-> 11],
       [key |-> <<"m", "a", "p", "s">>, value |-> 11],
       [key |-> <<"c", "a", "l", "e", "n", "d", "a", "r">>, value |-> 11],
       [key |-> <<"b", "a", "n", "k">>, value |-> 12],
       [key |-> <<"p", "a", "y", "p", "a", "l">>, value |-> 12],
       [key |-> <<"v", "e", "n", "m", "o">>, value |-> 12],
       [key |-> <<"h", "e", "a", "l", "t", "h">>, value |-> 13],
       [key |-> <<"m", "e", "d", "i", "c", "a", "l">>, value |-> 13],
       [key |-> <<"f", "i", "t", "n", "e", "s", "s">>, value |-> 13],
       [key |-> <<"t", "r", "a", "v", "e", "l">>, value |-> 14],
       [key |-> <<"b", "o", "o", "k", "i", "n", "g">>, value |-> 14],
       [key |-> <<"a", "i", "r", "l", "i", "n", "e">>, value |-> 14],
       [key |-> <<"d", "e", "f", "a", "u", "l", "t">>, value |-> 15] >>

N_CLUSTERS == 10

DEFAULT_KEY == <<"d", "e", "f", "a", "u", "l", "t">>
UNKNOWN_DOMAIN == <<"u", "n", "k", "n", "o", "w", "n">>

\* DOMAIN_CATEGORIES[key]
CategoryOf(key) ==
    DOMAIN_CATEGORIES[CHOOSE i \in 1..Len(DOMAIN_CATEGORIES) :
                          DOMAIN_CATEGORIES[i].key = key].value

-----------------------------------------------------------------------------
(* String literals of optimize_bookmarks.py *)

BOOKMARKS_BAR == <<"B", "o", "o", "k", "m", "a", "r", "k", "s", " ", "B", "a", "r">>
BAR_SEGMENT == <<"B", "o", "o", "k", "m", "a", "r", "k", "s", " ", "b", "a", "r">>
ROOT_NAME == <<"r", "o", "o", "t">>
OTHER_NAME == <<"O", "t", "h", "e", "r">>
WWW_PREFIX == <<"w", "w", "w", ".">>
LowerAlpha == <<"a", "b", "c", "d", "e", "f", "g", "h", "i", "j", "k", "l", "m", "n", "o", "p", "q", "r", "s", "t", "u", "v", "w", "x", "y", "z">>
UpperAlpha == <<"A", "B", "C", "D", "E", "F", "G", "H", "I", "J", "K", "L", "M", "N", "O", "P", "Q", "R", "S", "T", "U", "V", "W", "X", "Y", "Z">>
Digits == {"0", "1", "2", "3", "4", "5", "6", "7", "8", "9"}
TLD_SUFFIXES == {<<".", "c", "o", "m">>, <<".", "o", "r", "g">>, <<".", "n", "e", "t">>, <<".", "e", "d", "u">>, <<".", "g", "o", "v">>}

-----------------------------------------------------------------------------
(* Python str and list operations, on sequences of characters *)

LowerChar(c) ==
    IF \E i \in 1..26 : UpperAlpha[i] = c
    THEN LowerAlpha[CHOOSE i \in 1..26 : UpperAlpha[i] = c]
    ELSE c

UpperChar(c) ==
    IF \E i \in 1..26 : LowerAlpha[i] = c
    THEN UpperAlpha[CHOOSE i \in 1..26 : LowerAlpha[i] = c]
    ELSE c

\* str.lower()
lower(s) == [i \in 1..Len(s) |-> LowerChar(s[i])]

\* str.title() in place of str.capitalize(): every word starts upper-case
capitalize_title(s) ==
    [i \in 1..Len(s) |->
        IF i = 1 \/ s[i - 1] = " " THEN UpperChar(s[i]) ELSE LowerChar(s[i])]

\* str.capitalize(): first character upper-cased, all the others lower-cased
capitalize(s) ==
    [i \in 1..Len(s) |-> IF i = 1 THEN UpperChar(s[i]) ELSE LowerChar(s[i])]

\* s[i-1:].startswith(sub), i counted from 1
StartsWithAt(s, sub, i) ==
    /\ i + Len(sub) - 1 <= Len(s)
    /\ \A j \in 1..Len(sub) : s[i + j - 1] = sub[j]

\* sub in s
Contains(s, sub) == \E i \in 1..(Len(s) - Len(sub) + 1) : StartsWithAt(s, sub, i)

\* x in list
InList(x, l) == \E i \in 1..Len(l) : l[i] = x

\* str.split(): maximal runs of non-blank characters
RECURSIVE SplitFrom(_, _, _)
SplitFrom(s, i, word) ==
    IF i > Len(s)
    THEN IF word = <<>> THEN <<>> ELSE <<word>>
    ELSE IF s[i] = " "
         THEN (IF word = <<>> THEN <<>> ELSE <<word>>) \o SplitFrom(s, i + 1, <<>>)
         ELSE SplitFrom(s, i + 1, Append(word, s[i]))

split(s) == SplitFrom(s, 1, <<>>)

\* sep.join(parts)
RECURSIVE join(_, _)
join(sep, parts) ==
    IF parts = <<>> THEN <<>>
    ELSE IF Len(parts) = 1 THEN parts[1]
    ELSE parts[1] \o sep \o join(sep, Tail(parts))

\* keys of a defaultdict(int) filled by "d[k] += 1" for k in items, in
\* insertion order
RECURSIVE DictKeys(_)
DictKeys(items) ==
    IF items = <<>> THEN <<>>
    ELSE LET front == DictKeys(SubSeq(items, 1, Len(items) - 1))
             last  == items[Len(items)]
         IN IF InList(last, front) THEN front ELSE Append(front, last)

\* value of that defaultdict at k
DictCount(items, k) == Cardinality({i \in 1..Len(items) : items[i] = k})

\* max(d.items(), key=lambda x: x[1])[0]: the first key, in insertion
\* order, that has the largest count
MaxKey(items) ==
    LET ks == DictKeys(items)
        i  == CHOOSE i \in 1..Len(ks) :
                /\ \A j \in 1..Len(ks) : DictCount(items, ks[j]) <= DictCount(items, ks[i])
                /\ \A j \in 1..(i - 1) : DictCount(items, ks[j]) < DictCount(items, ks[i])
    IN ks[i]

\* the keys left in insertion order, as if the sort were missing
SortedKeysUnsorted(items) == DictKeys(items)

\* [k for k, _ in sorted(d.items(), key=lambda x: x[1], reverse=True)]:
\* stable, so equal counts stay in insertion order
SortedKeys(items) ==
    LET ks == DictKeys(items)
        Before(j, i) == \/ DictCount(items, ks[j]) > DictCount(items, ks[i])
                        \/ /\ DictCount(items, ks[j]) = DictCount(items, ks[i])
                           /\ j < i
        Rank(i) == Cardinality({j \in 1..Len(ks) : Before(j, i)})
    IN [p \in 1..Len(ks) |-> ks[CHOOSE i \in 1..Len(ks) : Rank(i) = p - 1]]

-----------------------------------------------------------------------------
(* urllib.parse.urlparse(url).netloc and the domain regex *)

IsAlpha(c) == \E i \in 1..26 : LowerAlpha[i] = c \/ UpperAlpha[i] = c

IsSchemeChar(c) == IsAlpha(c) \/ c \in Digits \/ c \in {"+", "-", "."}

\* url.lstrip() of leading blanks
RECURSIVE LStrip(_)
LStrip(s) == IF s # <<>> /\ s[1] = " " THEN LStrip(Tail(s)) ELSE s

\* urlparse(url): [ok |-> FALSE] when it raises ValueError, else the netloc.
\* The scheme is split off at the first ':' when everything before it is a
\* scheme character; a netloc is present only behind a leading "//" and
\* ends at the first of "/", "?", "#"; a netloc with an unmatched square
\* bracket raises.  (Netlocs holding both brackets are outside the inputs.)
urlparse(url) ==
    LET u     == LStrip(url)
        colon == {i \in 1..Len(u) : u[i] = ":"}
        i     == IF colon = {} THEN 0
                 ELSE CHOOSE i \in colon : \A j \in colon : i <= j
        hasScheme == /\ i > 1
                     /\ IsAlpha(u[1])
                     /\ \A j \in 1..(i - 1) : IsSchemeChar(u[j])
        rest  == IF hasScheme THEN SubSeq(u, i + 1, Len(u)) ELSE u
        hasNetloc == StartsWithAt(rest, <<"/", "/">>, 1)
        delims == {j \in 3..Len(rest) : rest[j] \in {"/", "?", "#"}}
        delim == IF delims = {} THEN Len(rest) + 1
                 ELSE CHOOSE j \in delims : \A k \in delims : j <= k
        netloc == IF hasNetloc THEN SubSeq(rest, 3, delim - 1) ELSE <<>>
        open  == InList("[", netloc)
        close == InList("]", netloc)
    IN IF open # close
       THEN [ok |-> FALSE, netloc |-> <<>>]
       ELSE [ok |-> TRUE, netloc |-> netloc]

\* re.sub(r'^www\.|\.com$|\.org$|\.net$|\.edu$|\.gov$', '', domain): a
\* leading "www." is removed, and so is a trailing suffix that starts behind
\* the removed prefix
NormalizeDomain(domain) ==
    LET pre  == IF StartsWithAt(domain, WWW_PREFIX, 1) THEN Len(WWW_PREFIX) ELSE 0
        rest == SubSeq(domain, pre + 1, Len(domain))
        suf  == {t \in TLD_SUFFIXES :
                    Len(rest) >= Len(t) /\ StartsWithAt(rest, t, Len(rest) - Len(t) + 1)}
    IN IF suf = {} THEN rest
       ELSE SubSeq(rest, 1, Len(rest) - Len(CHOOSE t \in suf : TRUE))

-----------------------------------------------------------------------------
(* Bookmark dicts.  A bookmark value is the record                          *)
(* [title, url, folder_path] with folder_path the list's contents; in the   *)
(* heap a dict holds the identity of its folder_path list instead.          *)

\* the dict with identity d, read through the heaps h (dicts) and l (lists)
Deref(h, l, d) ==
    [title |-> h[d].title, url |-> h[d].url, folder_path |-> l[h[d].folder_path]]

\* no copy at all: the dict itself is handed on
BookmarkCopyAlias(h, d) == [id |-> d, heap |-> h]

\* bookmark.copy() on the heap h: a new dict object holding the same values,
\* so the same folder_path list object (a shallow copy)
BookmarkCopy(h, d) == [id |-> Len(h) + 1, heap |-> Append(h, h[d])]

-----------------------------------------------------------------------------
(* BookmarkOptimizer._is_frequently_used *)

HasClassKeyword(title, url) ==
    \E keyword \in CLASS_KEYWORDS : Contains(title, keyword) \/ Contains(url, keyword)

\* classifier for which a class keyword is enough, whatever the domain
_is_frequently_used_by_keyword(bookmark) ==
    LET title  == lower(bookmark.title)
        url    == lower(bookmark.url)
        parsed == urlparse(url)
        tool   == parsed.ok /\ parsed.netloc \in TOOL_DOMAINS
    IN IF bookmark.folder_path # <<>> /\ InList(BAR_SEGMENT, bookmark.folder_path)
       THEN TRUE
       ELSE IF HasClassKeyword(title, url)
       THEN TRUE
       ELSE tool

_is_frequently_used(bookmark) ==
    LET title  == lower(bookmark.title)
        url    == lower(bookmark.url)
        parsed == urlparse(url)
        tool   == parsed.ok /\ parsed.netloc \in TOOL_DOMAINS
    IN IF bookmark.folder_path # <<>> /\ InList(BAR_SEGMENT, bookmark.folder_path)
       THEN TRUE
       ELSE IF HasClassKeyword(title, url) /\ tool
       THEN TRUE
       ELSE tool

-----------------------------------------------------------------------------
(* BookmarkOptimizer._generate_cluster_name *)

\* title words of all bookmarks (collected before the URL is parsed)
RECURSIVE TitleWords(_)
TitleWords(bms) ==
    IF bms = <<>> THEN <<>>
    ELSE split(lower(bms[1].title)) \o TitleWords(Tail(bms))

\* one normalized domain per bookmark whose URL parses
RECURSIVE DomainItems(_)
DomainItems(bms) ==
    IF bms = <<>> THEN <<>>
    ELSE LET parsed == urlparse(bms[1].url)
         IN (IF parsed.ok THEN <<NormalizeDomain(parsed.netloc)>> ELSE <<>>)
            \o DomainItems(Tail(bms))

\* lower-cased folder-path segments; a bookmark whose URL does not parse
\* is left by "continue" before its segments are counted
RECURSIVE FolderItems(_)
FolderItems(bms) ==
    IF bms = <<>> THEN <<>>
    ELSE (IF urlparse(bms[1].url).ok
          THEN [i \in 1..Len(bms[1].folder_path) |-> lower(bms[1].folder_path[i])]
          ELSE <<>>)
         \o FolderItems(Tail(bms))

_generate_cluster_name(bms) ==
    LET text         == TitleWords(bms)
        domains      == DomainItems(bms)
        folder_paths == FolderItems(bms)
        words        == SelectSeq(text, LAMBDA w : w \notin COMMON_WORDS /\ Len(w) > 2)
        sorted       == SortedKeys(words)
        top_words    == SubSeq(sorted, 1, IF Len(sorted) < 3 THEN Len(sorted) ELSE 3)
    IN IF /\ folder_paths # <<>>
          /\ DictCount(folder_paths, MaxKey(folder_paths)) * 10
                >= Len(bms) * FOLDER_PATH_THRESHOLD
       THEN capitalize(MaxKey(folder_paths))
       ELSE IF top_words # <<>>
       THEN LET primary       == capitalize(top_words[1])
                primary_count == DictCount(words, top_words[1])
                Keep(w) == /\ ~Contains(lower(primary), w)
                           /\ DictCount(words, w) * 10
                                >= primary_count * SECONDARY_WORD_THRESHOLD
                rest      == SelectSeq(Tail(top_words), Keep)
                secondary == [i \in 1..Len(rest) |-> capitalize(rest[i])]
            IN IF secondary # <<>>
               THEN primary \o <<" ", "&", " ">> \o join(<<" ", "&", " ">>, secondary)
               ELSE primary
       ELSE IF domains # <<>> THEN capitalize(MaxKey(domains)) ELSE OTHER_NAME

-----------------------------------------------------------------------------
(* FolderNode.  subfolders is the dict name -> FolderNode, kept as the      *)
(* sequence of its items in insertion order.                                *)

\* constructor that does not keep the name it is given
FolderNodeUnnamed(name) ==
    [name |-> <<>>, add_date |-> <<>>, last_modified |-> <<>>,
     bookmarks |-> <<>>, subfolders |-> <<>>]

FolderNode(name) ==
    [name |-> name, add_date |-> <<>>, last_modified |-> <<>>,
     bookmarks |-> <<>>, subfolders |-> <<>>]

\* name in node.subfolders
HasSubfolder(node, name) ==
    \E i \in 1..Len(node.subfolders) : node.subfolders[i].key = name

\* position of node.subfolders[name] among the items
SubfolderIndex(node, name) ==
    CHOOSE i \in 1..Len(node.subfolders) :
        /\ node.subfolders[i].key = name
        /\ \A j \in (i + 1)..Len(node.subfolders) : node.subfolders[j].key # name

\* get_subfolder that stores a fresh FolderNode whether or not the name is
\* already a key, so that the folder filled before is replaced
get_subfolder_replacing(node, name) ==
    IF HasSubfolder(node, name)
    THEN [node EXCEPT !.subfolders[SubfolderIndex(node, name)] =
              [key |-> name, node |-> FolderNode(name)]]
    ELSE [node EXCEPT !.subfolders =
              Append(@, [key |-> name, node |-> FolderNode(name)])]

\* FolderNode.get_subfolder: the node after the call; the subfolder it
\* returns is the one at SubfolderIndex(node', name)
get_subfolder(node, name) ==
    IF HasSubfolder(node, name) THEN node
    ELSE [node EXCEPT !.subfolders =
              Append(@, [key |-> name, node |-> FolderNode(name)])]

\* FolderNode.add_bookmark
add_bookmark(node, bookmark) ==
    [node EXCEPT !.bookmarks = Append(@, bookmark)]

\* total of a sequence of numbers ("total += ..." over a loop)
RECURSIVE Sum(_)
Sum(numbers) ==
    IF numbers = <<>> THEN 0 ELSE numbers[1] + Sum(Tail(numbers))

\* count_bookmarks that leaves the subfolders out
count_bookmarks_own(node) == Len(node.bookmarks)

\* FolderNode.count_bookmarks
RECURSIVE count_bookmarks(_)
count_bookmarks(node) ==
    Len(node.bookmarks)
        + Sum([i \in 1..Len(node.subfolders) |->
                  count_bookmarks(node.subfolders[i].node)])

\* FolderNode.count_folders
RECURSIVE count_folders(_)
count_folders(node) ==
    1 + Sum([i \in 1..Len(node.subfolders) |->
                count_folders(node.subfolders[i].node)])

-----------------------------------------------------------------------------
(* Inputs *)

T_MyRepo == <<"M", "y", " ", "R", "e", "p", "o">>
T_OtherRepo == <<"O", "t", "h", "e", "r", " ", "R", "e", "p", "o">>
T_Cake == <<"C", "a", "k", "e">>
T_Pie == <<"P", "i", "e">>
T_Empty == <<>>
U_GithubA == <<"h", "t", "t", "p", "s", ":", "/", "/", "g", "i", "t", "h", "u", "b", ".", "c", "o", "m", "/", "a">>
U_GitHubA == <<"h", "t", "t", "p", "s", ":", "/", "/", "G", "i", "t", "H", "u", "b", ".", "c", "o", "m", "/", "a">>
U_XOrg == <<"h", "t", "t", "p", ":", "/", "/", "x", ".", "o", "r", "g", "/", "r">>
U_YNet == <<"h", "t", "t", "p", ":", "/", "/", "y", ".", "n", "e", "t", "/", "p">>
U_Bad == <<"h", "t", "t", "p", ":", "/", "/", "[", "x">>
U_Empty == <<>>
F_Recipes == <<"R", "e", "c", "i", "p", "e", "s">>

\* the bookmark records suggest_organization is run on
BookmarkInputs ==
    { [title |-> T_MyRepo, url |-> U_GithubA, folder_path |-> <<>>],
      [title |-> T_OtherRepo, url |-> U_GitHubA, folder_path |-> <<>>],
      [title |-> T_Cake, url |-> U_XOrg, folder_path |-> <<F_Recipes>>],
      [title |-> T_Cake, url |-> U_XOrg, folder_path |-> <<BAR_SEGMENT>>],
      [title |-> T_Pie, url |-> U_YNet, folder_path |-> <<F_Recipes>>],
      [title |-> T_Empty, url |-> U_Bad, folder_path |-> <<>>],
      [title |-> T_Pie, url |-> U_Empty, folder_path |-> <<>>] }

-----------------------------------------------------------------------------
(* BookmarkOptimizer.suggest_organization *)

\* f"{title} {domain} {folder_path}" of the first pass
FeatureText(bm) ==
    LET title       == lower(bm.title)
        parsed      == urlparse(bm.url)
        domain      == IF parsed.ok THEN NormalizeDomain(parsed.netloc) ELSE <<>>
        folder_path == join(<<" ">>, bm.folder_path)
    IN title \o <<" ">> \o domain \o <<" ">> \o folder_path

\* a URL test that ignores case
IsSeenNoCase(url, seen) == \E u \in seen : lower(u) = lower(url)

\* "if url in seen_urls"
IsSeen(url, seen) == url \in seen

\* first pass over self.bookmarks: st holds seen_urls, total_unique_bookmarks,
\* features and bookmarks_to_cluster
RECURSIVE FirstPass(_, _, _, _)
FirstPass(h, l, bs, st) ==
    IF bs = <<>> THEN st
    ELSE LET url == h[bs[1]].url
         IN IF IsSeen(url, st.seen_urls)
            THEN FirstPass(h, l, Tail(bs), st)
            ELSE FirstPass(h, l, Tail(bs),
                    [seen_urls |-> st.seen_urls \cup {url},
                     total_unique_bookmarks |-> st.total_unique_bookmarks + 1,
                     features |-> Append(st.features, FeatureText(Deref(h, l, bs[1]))),
                     bookmarks_to_cluster |-> Append(st.bookmarks_to_cluster, bs[1])])

\* grouping that touches d['Other'] and so leaves an empty 'Other' group
\* behind when nothing is grouped
GroupByTouchingOther(keys, ids) ==
    LET ks == IF keys = <<>> THEN <<OTHER_NAME>> ELSE DictKeys(keys)
    IN [g \in 1..Len(ks) |->
          [key |-> ks[g],
           ids |-> LET at == SelectSeq([i \in 1..Len(ids) |-> i],
                                       LAMBDA i : keys[i] = ks[g])
                   IN [p \in 1..Len(at) |-> ids[at[p]]]]]

\* a defaultdict(list) filled by "d[keys[i]].append(ids[i])": its items, in
\* insertion order of the keys
GroupBy(keys, ids) ==
    LET ks == DictKeys(keys)
    IN [g \in 1..Len(ks) |->
          [key |-> ks[g],
           ids |-> LET at == SelectSeq([i \in 1..Len(ids) |-> i],
                                       LAMBDA i : keys[i] = ks[g])
                   IN [p \in 1..Len(at) |-> ids[at[p]]]]]

\* "for bookmark in bookmarks: folder.add_bookmark(bookmark.copy())" with
\* folder the subfolder at position i of the root; st holds root and dicts
RECURSIVE CopyInto(_, _, _)
CopyInto(st, i, ids) ==
    IF ids = <<>> THEN st
    ELSE LET c == BookmarkCopy(st.dicts, ids[1])
         IN CopyInto([root  |-> [st.root EXCEPT !.subfolders[i].node =
                                                    add_bookmark(@, c.id)],
                      dicts |-> c.heap],
                     i, Tail(ids))

\* "folder = root.get_subfolder(name)" followed by the copy loop, for every
\* group in order
RECURSIVE FillFolders(_, _)
FillFolders(st, named) ==
    IF named = <<>> THEN st
    ELSE LET r == get_subfolder(st.root, named[1].name)
             i == SubfolderIndex(r, named[1].name)
         IN FillFolders(CopyInto([root |-> r, dicts |-> st.dicts], i, named[1].ids),
                        Tail(named))

\* the folder name of every cluster of the statistical path
ClusterFolders(h, l, groups) ==
    [g \in 1..Len(groups) |->
        [name |-> _generate_cluster_name(
                      [p \in 1..Len(groups[g].ids) |-> Deref(h, l, groups[g].ids[p])]),
         ids  |-> groups[g].ids]]

\* the fallback key taken from the netloc as it is, without the regex
FallbackDomainRaw(bm) ==
    LET parsed == urlparse(bm.url)
    IN IF parsed.ok THEN parsed.netloc ELSE OTHER_NAME

\* key of domain_folders for one bookmark of the fallback grouping
FallbackDomain(bm) ==
    LET parsed == urlparse(bm.url)
    IN IF parsed.ok THEN NormalizeDomain(parsed.netloc) ELSE OTHER_NAME

\* fallback grouping whose except clause is "continue", as in
\* _generate_cluster_name: bookmarks whose URL does not parse are left out
DomainGroupsSkippingUnparseable(h, l, ids) ==
    LET ok == SelectSeq(ids, LAMBDA d : urlparse(h[d].url).ok)
    IN GroupBy([i \in 1..Len(ok) |-> FallbackDomain(Deref(h, l, ok[i]))], ok)

\* lines 309-316: domain_folders of the fallback grouping
DomainGroups(h, l, ids) ==
    GroupBy([i \in 1..Len(ids) |-> FallbackDomain(Deref(h, l, ids[i]))], ids)

\* the folder name of every group of the fallback grouping
DomainFolders(groups) ==
    [g \in 1..Len(groups) |->
        [name |-> capitalize(groups[g].key), ids |-> groups[g].ids]]

\* position of the bookmarks_bar node, which line 242 stores first
BarIndex == 1

\* second pass that records every URL it meets in bookmarks_bar_urls,
\* frequently used or not
RECURSIVE SecondPassMarkingAll(_, _, _)
SecondPassMarkingAll(l, bs, st) ==
    IF bs = <<>> THEN st
    ELSE LET url == st.dicts[bs[1]].url
         IN IF url \in st.bookmarks_bar_urls
            THEN SecondPassMarkingAll(l, Tail(bs), st)
            ELSE IF _is_frequently_used(Deref(st.dicts, l, bs[1]))
            THEN LET c == BookmarkCopy(st.dicts, bs[1])
                 IN SecondPassMarkingAll(l, Tail(bs),
                       [root  |-> [st.root EXCEPT !.subfolders[1].node =
                                                      add_bookmark(@, c.id)],
                        dicts |-> c.heap,
                        bookmarks_bar_urls |-> st.bookmarks_bar_urls \cup {url}])
            ELSE SecondPassMarkingAll(l, Tail(bs),
                       [st EXCEPT !.bookmarks_bar_urls = @ \cup {url}])

\* second pass over self.bookmarks: st holds root, dicts and
\* bookmarks_bar_urls
RECURSIVE SecondPass(_, _, _)
SecondPass(l, bs, st) ==
    IF bs = <<>> THEN st
    ELSE LET url == st.dicts[bs[1]].url
         IN IF url \in st.bookmarks_bar_urls
            THEN SecondPass(l, Tail(bs), st)
            ELSE IF _is_frequently_used(Deref(st.dicts, l, bs[1]))
            THEN LET c == BookmarkCopy(st.dicts, bs[1])
                 IN SecondPass(l, Tail(bs),
                       [root  |-> [st.root EXCEPT !.subfolders[BarIndex].node =
                                                      add_bookmark(@, c.id)],
                        dicts |-> c.heap,
                        bookmarks_bar_urls |-> st.bookmarks_bar_urls \cup {url}])
            ELSE SecondPass(l, Tail(bs), st)

\* the label sequences fit_predict can return for n samples and k clusters:
\* labels lie in 0..k-1.  The grouping of lines 292-294 depends only on
\* which samples share a label and on the order in which labels first
\* occur, so one numbering is kept per grouping: a label is new only if it
\* is the successor of the largest label used before it.
Labelings(n, k) ==
    {f \in [1..n -> 0..(k - 1)] :
        \A i \in 1..n :
            \/ f[i] = 0
            \/ \E j \in 1..(i - 1) : f[j] = f[i] \/ f[j] = f[i] - 1}

-----------------------------------------------------------------------------
(* State machine of one suggest_organization call *)

\* no stand-alone _generate_cluster_name call is in progress
NoNameCall ==
    /\ nm_bookmarks = <<>>
    /\ nm_res = <<>>

\* no stand-alone _cluster_bookmarks call is in progress
NoClusterCall ==
    /\ cb_features = <<>>
    /\ cb_n_clusters = 0
    /\ cb_pc = "idle"
    /\ cb_res = <<>>

\* no FolderNode has been built outside suggest_organization
NoTreeCall ==
    /\ created = 0
    /\ added = 0

\* self.bookmarks as extract_bookmarks builds it: one dict and one
\* folder_path list per bookmark, identities 1..n
InitWith(inputs) ==
    /\ \E n \in 0..MaxLen : \E input \in [1..n -> inputs] :
          /\ bookmarks = [i \in 1..n |-> i]
          /\ dicts = [i \in 1..n |->
                        [title |-> input[i].title, url |-> input[i].url,
                         folder_path |-> i]]
          /\ lists = [i \in 1..n |-> input[i].folder_path]
    /\ pc = "start"
    /\ seen_urls = {}
    /\ total_unique_bookmarks = 0
    /\ features = <<>>
    /\ bookmarks_to_cluster = <<>>
    /\ clusters = <<>>
    /\ root = FolderNode(ROOT_NAME)
    /\ bookmarks_bar_urls = {}
    /\ removed = 0
    /\ failure = "none"
    /\ cl_bm = [title |-> <<>>, url |-> <<>>, folder_path |-> <<>>]
    /\ cl_res = "none"
    /\ NoNameCall
    /\ NoClusterCall
    /\ NoTreeCall

Init == InitWith(BookmarkInputs)

\* lines 239-276: root with its Bookmarks Bar, then the first pass
Deduplicate ==
    /\ pc = "start"
    /\ LET st == FirstPass(dicts, lists, bookmarks,
                    [seen_urls |-> {}, total_unique_bookmarks |-> 0,
                     features |-> <<>>, bookmarks_to_cluster |-> <<>>])
       IN /\ seen_urls' = st.seen_urls
          /\ total_unique_bookmarks' = st.total_unique_bookmarks
          /\ features' = st.features
          /\ bookmarks_to_cluster' = st.bookmarks_to_cluster
    /\ root' = [FolderNode(ROOT_NAME) EXCEPT !.subfolders =
                   <<[key |-> BOOKMARKS_BAR, node |-> FolderNode(BOOKMARKS_BAR)]>>]
    /\ pc' = "deduped"
    /\ UNCHANGED <<bookmarks, dicts, lists, clusters, bookmarks_bar_urls, removed,
                   failure>>
    /\ UNCHANGED helperVars

\* line 281, fit_transform returns: the vectorizer raises whenever
\* max_df * n_docs < min_df, so it can return only for 3 documents or more
Vectorize ==
    /\ pc = "deduped"
    /\ Len(features) * MAX_DF >= MIN_DF * 10
    /\ pc' = "vectorized"
    /\ UNCHANGED <<bookmarks, dicts, lists, seen_urls, total_unique_bookmarks,
                   features, bookmarks_to_cluster, clusters, root,
                   bookmarks_bar_urls, removed, failure>>
    /\ UNCHANGED helperVars

\* line 281, fit_transform raises (empty vocabulary, no terms left, ...):
\* control goes to the except clause of line 306
VectorizeFails ==
    /\ pc = "deduped"
    /\ pc' = "failed"
    /\ failure' = "fit_transform"
    /\ UNCHANGED <<bookmarks, dicts, lists, seen_urls, total_unique_bookmarks,
                   features, bookmarks_to_cluster, clusters, root,
                   bookmarks_bar_urls, removed>>
    /\ UNCHANGED helperVars

\* lines 284-289, fit_predict returns one label per bookmark
FitPredict ==
    /\ pc = "vectorized"
    /\ LET n == Len(bookmarks_to_cluster)
           k == IF CLUSTER_CAP < n THEN CLUSTER_CAP ELSE n
       IN clusters' \in Labelings(n, k)
    /\ pc' = "clustered"
    /\ UNCHANGED <<bookmarks, dicts, lists, seen_urls, total_unique_bookmarks,
                   features, bookmarks_to_cluster, root, bookmarks_bar_urls,
                   removed, failure>>
    /\ UNCHANGED helperVars

\* lines 284-289, the clustering raises: control goes to the except clause
FitPredictFails ==
    /\ pc = "vectorized"
    /\ pc' = "failed"
    /\ failure' = "fit_predict"
    /\ UNCHANGED <<bookmarks, dicts, lists, seen_urls, total_unique_bookmarks,
                   features, bookmarks_to_cluster, clusters, root,
                   bookmarks_bar_urls, removed>>
    /\ UNCHANGED helperVars

\* lines 291-304: group by label, name each cluster, fill its folder
BuildClusterFolders ==
    /\ pc = "clustered"
    /\ LET groups == GroupBy(clusters, bookmarks_to_cluster)
           st == FillFolders([root |-> root, dicts |-> dicts],
                             ClusterFolders(dicts, lists, groups))
       IN /\ root' = st.root
          /\ dicts' = st.dicts
    /\ pc' = "built"
    /\ UNCHANGED <<bookmarks, lists, seen_urls, total_unique_bookmarks, features,
                   bookmarks_to_cluster, clusters, bookmarks_bar_urls, removed,
                   failure>>
    /\ UNCHANGED helperVars

\* lines 306-322: group by domain, one folder per capitalized domain
FallbackGrouping ==
    /\ pc = "failed"
    /\ LET groups == DomainGroups(dicts, lists, bookmarks_to_cluster)
           st == FillFolders([root |-> root, dicts |-> dicts], DomainFolders(groups))
       IN /\ root' = st.root
          /\ dicts' = st.dicts
    /\ pc' = "built"
    /\ UNCHANGED <<bookmarks, lists, seen_urls, total_unique_bookmarks, features,
                   bookmarks_to_cluster, clusters, bookmarks_bar_urls, removed,
                   failure>>
    /\ UNCHANGED helperVars

\* lines 324-336: copy the frequently used bookmarks into the Bookmarks Bar
FillBookmarksBar ==
    /\ pc = "built"
    /\ LET st == SecondPass(lists, bookmarks,
                    [root |-> root, dicts |-> dicts, bookmarks_bar_urls |-> {}])
       IN /\ root' = st.root
          /\ dicts' = st.dicts
          /\ bookmarks_bar_urls' = st.bookmarks_bar_urls
    /\ pc' = "filled"
    /\ UNCHANGED <<bookmarks, lists, seen_urls, total_unique_bookmarks, features,
                   bookmarks_to_cluster, clusters, removed, failure>>
    /\ UNCHANGED helperVars

\* lines 338-350: the duplicate count that is logged, and the return of
\* root.to_dict(), which holds the bookmark dicts of the tree themselves
Return ==
    /\ pc = "filled"
    /\ removed' = Len(bookmarks) - total_unique_bookmarks
    /\ pc' = "returned"
    /\ UNCHANGED <<bookmarks, dicts, lists, seen_urls, total_unique_bookmarks,
                   features, bookmarks_to_cluster, clusters, root,
                   bookmarks_bar_urls, failure>>
    /\ UNCHANGED helperVars

Next ==
    \/ Deduplicate
    \/ Vectorize
    \/ VectorizeFails
    \/ FitPredict
    \/ FitPredictFails
    \/ BuildClusterFolders
    \/ FallbackGrouping
    \/ FillBookmarksBar
    \/ Return

Spec == Init /\ [][Next]_vars

-----------------------------------------------------------------------------
(* Stand-alone calls of _is_frequently_used *)

T_Course == <<"C", "o", "u", "r", "s", "e", " ", "n", "o", "t", "e", "s">>
T_Syllabus == <<"S", "Y", "L", "L", "A", "B", "U", "S">>
U_WwwGithubA == <<"h", "t", "t", "p", "s", ":", "/", "/", "w", "w", "w", ".", "g", "i", "t", "h", "u", "b", ".", "c", "o", "m", "/", "a">>
U_Course == <<"h", "t", "t", "p", ":", "/", "/", "x", ".", "e", "d", "u", "/", "c", "o", "u", "r", "s", "e">>
U_NoScheme == <<"g", "i", "t", "h", "u", "b", ".", "c", "o", "m", "/", "a">>

ClassifyTitles == {T_Empty, T_MyRepo, T_Course, T_Syllabus}

ClassifyUrls ==
    {U_GithubA, U_GitHubA, U_WwwGithubA, U_XOrg, U_Course, U_Bad, U_Empty,
     U_NoScheme}

ClassifyPaths == {<<>>, <<BAR_SEGMENT>>, <<BOOKMARKS_BAR>>, <<F_Recipes, BAR_SEGMENT>>}

ClassifyInputs ==
    [title : ClassifyTitles, url : ClassifyUrls, folder_path : ClassifyPaths]

InitClassify ==
    /\ cl_bm \in ClassifyInputs
    /\ cl_res = "none"
    /\ pc = "idle"
    /\ bookmarks = <<>>
    /\ dicts = <<>>
    /\ lists = <<>>
    /\ seen_urls = {}
    /\ total_unique_bookmarks = 0
    /\ features = <<>>
    /\ bookmarks_to_cluster = <<>>
    /\ clusters = <<>>
    /\ root = FolderNode(ROOT_NAME)
    /\ bookmarks_bar_urls = {}
    /\ removed = 0
    /\ failure = "none"
    /\ NoNameCall
    /\ NoClusterCall
    /\ NoTreeCall

\* one call self._is_frequently_used(cl_bm)
Classify ==
    /\ cl_res = "none"
    /\ cl_res' = IF _is_frequently_used(cl_bm) THEN "true" ELSE "false"
    /\ UNCHANGED cl_bm
    /\ UNCHANGED <<engineVars, nameVars, clusterVars, treeVars>>

NextClassify == Classify

SpecClassify == InitClassify /\ [][NextClassify]_vars

-----------------------------------------------------------------------------
(* One call of _generate_cluster_name on a cluster of bookmarks *)

\* largest cluster handed to _generate_cluster_name
MaxCluster == 3

T_TheCakes == <<"t", "h", "e", " ", "C", "a", "k", "e", "s", " ", "c", "a", "k", "e">>
T_Tarts == <<"c", "a", "k", "e", " ", "c", "a", "k", "e", " ", "p", "i", "e", " ", "t", "a", "r", "t", " ", "j", "a", "m">>
T_OfIt == <<"o", "f", " ", "i", "t">>
U_XOrgC == <<"h", "t", "t", "p", ":", "/", "/", "x", ".", "o", "r", "g", "/", "c">>
F_Food == <<"F", "o", "o", "d">>

\* the bookmark records the clusters are made of
NameInputs ==
    { [title |-> T_Cake, url |-> U_XOrg, folder_path |-> <<F_Recipes>>],
      [title |-> T_Pie, url |-> U_YNet, folder_path |-> <<F_Recipes>>],
      [title |-> T_Cake, url |-> U_Bad, folder_path |-> <<F_Recipes>>],
      [title |-> T_OfIt, url |-> U_WwwGithubA, folder_path |-> <<F_Food, F_Recipes>>],
      [title |-> T_TheCakes, url |-> U_XOrgC, folder_path |-> <<>>],
      [title |-> T_Tarts, url |-> U_XOrgC, folder_path |-> <<>>],
      [title |-> T_Pie, url |-> U_Empty, folder_path |-> <<>>],
      [title |-> T_Empty, url |-> U_Empty, folder_path |-> <<>>],
      [title |-> T_Empty, url |-> U_Bad, folder_path |-> <<>>],
      [title |-> T_OfIt, url |-> U_YNet, folder_path |-> <<>>] }

\* no suggest_organization call is in progress
NoEngineCall ==
    /\ pc = "idle"
    /\ bookmarks = <<>>
    /\ dicts = <<>>
    /\ lists = <<>>
    /\ seen_urls = {}
    /\ total_unique_bookmarks = 0
    /\ features = <<>>
    /\ bookmarks_to_cluster = <<>>
    /\ clusters = <<>>
    /\ root = FolderNode(ROOT_NAME)
    /\ bookmarks_bar_urls = {}
    /\ removed = 0
    /\ failure = "none"

NoClassifyCall ==
    /\ cl_bm = [title |-> <<>>, url |-> <<>>, folder_path |-> <<>>]
    /\ cl_res = "none"

InitName ==
    /\ \E n \in 1..MaxCluster : nm_bookmarks \in [1..n -> NameInputs]
    /\ nm_res = <<>>
    /\ NoEngineCall
    /\ NoClassifyCall
    /\ NoClusterCall
    /\ NoTreeCall

\* one call self._generate_cluster_name(nm_bookmarks); the name returned is
\* kept as the only element of nm_res
GenerateName ==
    /\ nm_res = <<>>
    /\ nm_res' = <<_generate_cluster_name(nm_bookmarks)>>
    /\ UNCHANGED nm_bookmarks
    /\ UNCHANGED <<engineVars, classifyVars, clusterVars, treeVars>>

NextName == GenerateName

SpecName == InitName /\ [][NextName]_vars

-----------------------------------------------------------------------------
(* BookmarkOptimizer._fallback_domain_clustering and _cluster_bookmarks *)

\* lines 140-147 for one feature whose split() is not empty: the value of the
\* first key, in table order, found in the lower-cased first token
FallbackCategory(feature) ==
    LET domain == IF feature # <<>> THEN split(feature)[1] ELSE UNKNOWN_DOMAIN
        hits   == {i \in 1..Len(DOMAIN_CATEGORIES) :
                      Contains(lower(domain), DOMAIN_CATEGORIES[i].key)}
    IN IF hits = {} THEN CategoryOf(DEFAULT_KEY)
       ELSE DOMAIN_CATEGORIES[CHOOSE i \in hits : \A j \in hits : i <= j].value

\* feature.split()[0] raises IndexError: the feature is not empty, so the
\* conditional takes split()[0], and split() finds no token
FirstTokenRaises(feature) == feature # <<>> /\ split(feature) = <<>>

\* the call either raises at the first such feature or returns one category
\* per feature
_fallback_domain_clustering(feats) ==
    IF \E i \in 1..Len(feats) : FirstTokenRaises(feats[i])
    THEN [raised |-> TRUE, clusters |-> <<>>]
    ELSE [raised |-> FALSE,
          clusters |-> [i \in 1..Len(feats) |-> FallbackCategory(feats[i])]]

-----------------------------------------------------------------------------
(* One call of _cluster_bookmarks(features, n_clusters) *)

\* longest list of features handed to _cluster_bookmarks
MaxFeatures == 3

S_Unparseable == <<>>
S_Blank == <<" ", " ">>
S_Github == <<"g", "i", "t", "h", "u", "b", " ", "M", "y", " ", "R", "e", "p", "o", " ">>
S_PythonDocs == <<"d", "o", "c", "s", ".", "p", "y", "t", "h", "o", "n", " ", "P", "y", "t", "h", "o", "n", " ", "D", "o", "c", "s", " ">>
S_BoxGitHub == <<"B", "o", "x", ".", "G", "i", "t", "H", "u", "b", ".", "i", "o", " ", "M", "i", "r", "r", "o", "r", " ">>
S_Maps == <<" ", "M", "a", "p", "s", " ">>

\* features as _extract_domain_features builds them: "domain title path",
\* and "" for a URL that does not parse
FeatureInputs ==
    {S_Unparseable, S_Blank, S_Github, S_PythonDocs, S_BoxGitHub, S_Maps}

\* values of the n_clusters argument; N_CLUSTERS is its default
ClusterCounts == {2, 3, N_CLUSTERS}

InitCluster ==
    /\ \E n \in 0..MaxFeatures : cb_features \in [1..n -> FeatureInputs]
    /\ cb_n_clusters \in ClusterCounts
    /\ cb_pc = "start"
    /\ cb_res = <<>>
    /\ NoEngineCall
    /\ NoClassifyCall
    /\ NoNameCall
    /\ NoTreeCall

\* line 121, fit_transform returns (see Vectorize)
ClusterVectorize ==
    /\ cb_pc = "start"
    /\ Len(cb_features) * MAX_DF >= MIN_DF * 10
    /\ cb_pc' = "vectorized"
    /\ UNCHANGED <<cb_features, cb_n_clusters, cb_res>>
    /\ UNCHANGED <<engineVars, classifyVars, nameVars, treeVars>>

\* line 121, fit_transform raises: control goes to the except clause
ClusterVectorizeFails ==
    /\ cb_pc = "start"
    /\ cb_pc' = "fit_transform raised"
    /\ UNCHANGED <<cb_features, cb_n_clusters, cb_res>>
    /\ UNCHANGED <<engineVars, classifyVars, nameVars, treeVars>>

\* lines 124-131, fit_predict returns one label per feature; it needs at
\* least n_clusters samples
ClusterFitPredict ==
    /\ cb_pc = "vectorized"
    /\ Len(cb_features) >= cb_n_clusters
    /\ cb_res' \in Labelings(Len(cb_features), cb_n_clusters)
    /\ cb_pc' = "clustered"
    /\ UNCHANGED <<cb_features, cb_n_clusters>>
    /\ UNCHANGED <<engineVars, classifyVars, nameVars, treeVars>>

\* lines 124-129, the clustering raises: control goes to the except clause
ClusterFitPredictFails ==
    /\ cb_pc = "vectorized"
    /\ cb_pc' = "fit_predict raised"
    /\ UNCHANGED <<cb_features, cb_n_clusters, cb_res>>
    /\ UNCHANGED <<engineVars, classifyVars, nameVars, treeVars>>

\* lines 132-134: the fallback is called inside the except clause, so what it
\* raises leaves _cluster_bookmarks
ClusterFallback ==
    /\ cb_pc \in {"fit_transform raised", "fit_predict raised"}
    /\ LET fallback == _fallback_domain_clustering(cb_features)
       IN IF fallback.raised
          THEN cb_pc' = "raised" /\ UNCHANGED cb_res
          ELSE cb_pc' = "fell_back" /\ cb_res' = fallback.clusters
    /\ UNCHANGED <<cb_features, cb_n_clusters>>
    /\ UNCHANGED <<engineVars, classifyVars, nameVars, treeVars>>

NextCluster ==
    \/ ClusterVectorize
    \/ ClusterVectorizeFails
    \/ ClusterFitPredict
    \/ ClusterFitPredictFails
    \/ ClusterFallback

SpecCluster == InitCluster /\ [][NextCluster]_vars

-----------------------------------------------------------------------------
(* suggest_organization on the bookmarks of the three-bookmark example *)

T_PythonDocs == <<"P", "y", "t", "h", "o", "n", " ", "D", "o", "c", "s">>
U_GithubB == <<"h", "t", "t", "p", "s", ":", "/", "/", "g", "i", "t", "h", "u", "b", ".", "c", "o", "m", "/", "b">>
U_PythonX == <<"h", "t", "t", "p", "s", ":", "/", "/", "d", "o", "c", "s", ".", "p", "y", "t", "h", "o", "n", ".", "o", "r", "g", "/", "x">>

E_MyRepo == [title |-> T_MyRepo, url |-> U_GithubA, folder_path |-> <<>>]
E_OtherRepo == [title |-> T_OtherRepo, url |-> U_GithubB, folder_path |-> <<>>]
E_PythonDocs == [title |-> T_PythonDocs, url |-> U_PythonX, folder_path |-> <<>>]

ExampleInputs == {E_MyRepo, E_OtherRepo, E_PythonDocs}

InitExample == InitWith(ExampleInputs)

SpecExample == InitExample /\ [][Next]_vars

-----------------------------------------------------------------------------
(* FolderNode trees built by get_subfolder and add_bookmark calls, next to   *)
(* the tree suggest_organization builds                                     *)

\* most FolderNode objects created, and most add_bookmark calls made
MaxCreated == 3
MaxAdded == 2

FolderNames == {<<"a">>, <<"b">>}

\* the bookmark dicts handed to add_bookmark
TreeDicts ==
    << [title |-> T_Cake, url |-> U_XOrg, folder_path |-> 1],
       [title |-> T_Pie, url |-> U_YNet, folder_path |-> 2] >>

\* names leading from the root to a node
TreePaths == UNION {[1..n -> FolderNames] : n \in 0..MaxCreated}

RECURSIVE PathExists(_, _)
PathExists(node, path) ==
    IF path = <<>> THEN TRUE
    ELSE IF HasSubfolder(node, path[1])
    THEN PathExists(node.subfolders[SubfolderIndex(node, path[1])].node, Tail(path))
    ELSE FALSE

\* node.subfolders[path[1]].subfolders[path[2]]...
RECURSIVE NodeAt(_, _)
NodeAt(node, path) ==
    IF path = <<>> THEN node
    ELSE NodeAt(node.subfolders[SubfolderIndex(node, path[1])].node, Tail(path))

\* the tree after get_subfolder(name) is called on the node at path
RECURSIVE GetSubfolderAt(_, _, _)
GetSubfolderAt(node, path, name) ==
    IF path = <<>> THEN get_subfolder(node, name)
    ELSE [node EXCEPT !.subfolders[SubfolderIndex(node, path[1])].node =
              GetSubfolderAt(@, Tail(path), name)]

\* the tree after add_bookmark(bookmark) is called on the node at path
RECURSIVE AddBookmarkAt(_, _, _)
AddBookmarkAt(node, path, bookmark) ==
    IF path = <<>> THEN add_bookmark(node, bookmark)
    ELSE [node EXCEPT !.subfolders[SubfolderIndex(node, path[1])].node =
              AddBookmarkAt(@, Tail(path), bookmark)]

\* FolderNode("root"), on which the calls are made
InitTree ==
    /\ pc = "tree"
    /\ root = FolderNode(ROOT_NAME)
    /\ bookmarks = <<>>
    /\ dicts = TreeDicts
    /\ lists = <<<<F_Recipes>>, <<>>>>
    /\ seen_urls = {}
    /\ total_unique_bookmarks = 0
    /\ features = <<>>
    /\ bookmarks_to_cluster = <<>>
    /\ clusters = <<>>
    /\ bookmarks_bar_urls = {}
    /\ removed = 0
    /\ failure = "none"
    /\ created = 0
    /\ added = 0
    /\ NoClassifyCall
    /\ NoNameCall
    /\ NoClusterCall

\* node.get_subfolder(name) on some node of the tree
TreeGetSubfolder ==
    /\ pc = "tree"
    /\ \E path \in TreePaths : \E name \in FolderNames :
          /\ PathExists(root, path)
          /\ IF HasSubfolder(NodeAt(root, path), name) THEN TRUE
             ELSE created < MaxCreated
          /\ root' = GetSubfolderAt(root, path, name)
          /\ created' = IF HasSubfolder(NodeAt(root, path), name)
                        THEN created ELSE created + 1
    /\ UNCHANGED <<pc, bookmarks, dicts, lists, seen_urls, total_unique_bookmarks,
                   features, bookmarks_to_cluster, clusters, bookmarks_bar_urls,
                   removed, failure, added>>
    /\ UNCHANGED <<classifyVars, nameVars, clusterVars>>

\* node.add_bookmark(bookmark) on some node of the tree
TreeAddBookmark ==
    /\ pc = "tree"
    /\ added < MaxAdded
    /\ \E path \in TreePaths : \E bookmark \in 1..Len(dicts) :
          /\ PathExists(root, path)
          /\ root' = AddBookmarkAt(root, path, bookmark)
    /\ added' = added + 1
    /\ UNCHANGED <<pc, bookmarks, dicts, lists, seen_urls, total_unique_bookmarks,
                   features, bookmarks_to_cluster, clusters, bookmarks_bar_urls,
                   removed, failure, created>>
    /\ UNCHANGED <<classifyVars, nameVars, clusterVars>>

InitTrees == Init \/ InitTree

NextTrees ==
    \/ Next
    \/ TreeGetSubfolder
    \/ TreeAddBookmark

SpecTrees == InitTrees /\ [][NextTrees]_vars

-----------------------------------------------------------------------------
(* Vocabulary of the properties *)

Returned == pc = "returned"

\* the cluster folders and the Bookmarks Bar have been filled / created
TreeBuilt == pc \in {"built", "filled", "returned"}

\* positions of the root's subfolders other than "Bookmarks Bar"
ClusterFolderIdx ==
    {i \in 1..Len(root.subfolders) : root.subfolders[i].key # BOOKMARKS_BAR}

\* positions of the root's subfolders named "Bookmarks Bar"
BarFolderIdx ==
    {i \in 1..Len(root.subfolders) : root.subfolders[i].key = BOOKMARKS_BAR}

\* the bookmark entries <<folder position, position in the folder>> of a
\* set of root subfolders
Entries(folders) ==
    {e \in (1..Len(root.subfolders)) \X (1..Len(dicts)) :
        e[1] \in folders /\ e[2] <= Len(root.subfolders[e[1]].node.bookmarks)}

EntryId(e) == root.subfolders[e[1]].node.bookmarks[e[2]]

EntryValue(e) == Deref(dicts, lists, EntryId(e))

InputUrl(i) == dicts[bookmarks[i]].url

InputValue(i) == Deref(dicts, lists, bookmarks[i])

\* positions of the input that hold the first occurrence of their URL
FirstOccurrences ==
    {i \in 1..Len(bookmarks) : \A j \in 1..(i - 1) : InputUrl(j) # InputUrl(i)}

\* the p-th of them, in input order
NthFirstOccurrence(p) ==
    CHOOSE i \in FirstOccurrences :
        Cardinality({j \in FirstOccurrences : j < i}) = p - 1

\* every deduplicated bookmark is held exactly once by the cluster folders,
\* and they hold nothing else
ClusterFoldersPartition ==
    /\ \A p \in 1..Len(bookmarks_to_cluster) :
          Cardinality({e \in Entries(ClusterFolderIdx) :
                          EntryValue(e) = Deref(dicts, lists, bookmarks_to_cluster[p])}) = 1
    /\ \A e \in Entries(ClusterFolderIdx) :
          \E p \in 1..Len(bookmarks_to_cluster) :
              EntryValue(e) = Deref(dicts, lists, bookmarks_to_cluster[p])

-----------------------------------------------------------------------------
(* Properties *)

\* C1: the bookmarks passed to clustering are the first occurrences of the
\* distinct URLs (compared as they are, case-sensitively), in input order,
\* with one feature text each; the number of removed duplicates that is
\* reported is the input length minus the number of distinct URLs.
C1_DedupKeepsFirstOccurrences ==
    pc # "start" =>
        /\ Len(bookmarks_to_cluster) = Cardinality(FirstOccurrences)
        /\ \A p \in 1..Len(bookmarks_to_cluster) :
              bookmarks_to_cluster[p] = bookmarks[NthFirstOccurrence(p)]
        /\ Len(features) = Len(bookmarks_to_cluster)
        /\ total_unique_bookmarks = Cardinality({InputUrl(i) : i \in 1..Len(bookmarks)})
        /\ Returned =>
              removed = Len(bookmarks) - Cardinality({InputUrl(i) : i \in 1..Len(bookmarks)})

\* a duplicate was dropped while two URLs that differ only in case were kept
C1_Witness ==
    /\ Returned
    /\ removed > 0
    /\ \E p, q \in 1..Len(bookmarks_to_cluster) :
          /\ dicts[bookmarks_to_cluster[p]].url # dicts[bookmarks_to_cluster[q]].url
          /\ lower(dicts[bookmarks_to_cluster[p]].url)
                = lower(dicts[bookmarks_to_cluster[q]].url)

\* C2: once the cluster folders are built, on either path, every bookmark
\* of the deduplicated input is in exactly one cluster folder, exactly once,
\* and the cluster folders hold nothing but the deduplicated input.
C2_ClusterCoverage == TreeBuilt => ClusterFoldersPartition

\* statistical path, with a folder that received two bookmarks next to
\* another cluster folder
C2_Witness ==
    /\ Returned
    /\ failure = "none"
    /\ Cardinality(ClusterFolderIdx) >= 2
    /\ \E i \in ClusterFolderIdx : Len(root.subfolders[i].node.bookmarks) >= 2

\* C3: no folder of the tree, cluster folder or Bookmarks Bar, holds two
\* bookmarks with the same URL.
C3_NoUrlTwiceInAFolder ==
    TreeBuilt =>
        \A i \in 1..Len(root.subfolders) :
            \A p, q \in 1..Len(root.subfolders[i].node.bookmarks) :
                p # q => dicts[root.subfolders[i].node.bookmarks[p]].url
                            # dicts[root.subfolders[i].node.bookmarks[q]].url

\* an input with a repeated URL, two groups that received the same folder
\* name, and a URL held both by a cluster folder and by the Bookmarks Bar
C3_Witness ==
    /\ Returned
    /\ Len(bookmarks) > Len(bookmarks_to_cluster)
    /\ failure # "none"
    /\ Len(DomainGroups(dicts, lists, bookmarks_to_cluster)) > Cardinality(ClusterFolderIdx)
    /\ \E e \in Entries(ClusterFolderIdx) : \E b \in Entries(BarFolderIdx) :
          dicts[EntryId(e)].url = dicts[EntryId(b)].url

\* C4: the tree has the root "root", the root has a "Bookmarks Bar"
\* subfolder, sibling subfolders have distinct names, and every subfolder
\* carries the name it is stored under.
C4_TreeShape ==
    pc # "start" =>
        /\ root.name = ROOT_NAME
        /\ HasSubfolder(root, BOOKMARKS_BAR)
        /\ \A i, j \in 1..Len(root.subfolders) :
              i # j => /\ root.subfolders[i].key # root.subfolders[j].key
                       /\ root.subfolders[i].node.name # root.subfolders[j].node.name
        /\ \A i \in 1..Len(root.subfolders) :
              /\ root.subfolders[i].node.name = root.subfolders[i].key
              /\ root.subfolders[i].node.subfolders = <<>>

\* a non-empty input of which nothing is frequently used: the Bookmarks Bar
\* is there, empty, next to the cluster folders
C4_Witness ==
    /\ Returned
    /\ Cardinality(ClusterFolderIdx) >= 2
    /\ \A i \in BarFolderIdx : root.subfolders[i].node.bookmarks = <<>>

\* C5: for the empty input the call goes on to its return (no step is left
\* without a successor), and returns a root without bookmarks whose only
\* subfolder is an empty "Bookmarks Bar".
C5_EmptyInput ==
    bookmarks = <<>> =>
        /\ ~Returned => ENABLED Next
        /\ Returned =>
              /\ root.bookmarks = <<>>
              /\ Len(root.subfolders) = 1
              /\ root.subfolders[1].key = BOOKMARKS_BAR
              /\ root.subfolders[1].node.bookmarks = <<>>
              /\ root.subfolders[1].node.subfolders = <<>>

C5_Witness == Returned /\ bookmarks = <<>> /\ failure = "fit_transform"

\* C6: when fit_transform or fit_predict raises, the call is in the except
\* clause or behind it, on its way to the return, and the tree it builds
\* holds every bookmark of the deduplicated input exactly once, in the
\* cluster folder named by its capitalized domain.
C6_FailureFallsBack ==
    failure # "none" =>
        /\ pc \in {"failed", "built", "filled", "returned"}
        /\ TreeBuilt =>
              /\ ClusterFoldersPartition
              /\ \A e \in Entries(ClusterFolderIdx) :
                    root.subfolders[e[1]].key = capitalize(FallbackDomain(EntryValue(e)))

\* the clustering raised after the vectorizer had returned, and the
\* fallback put two bookmarks into one folder
C6_Witness ==
    /\ Returned
    /\ failure = "fit_predict"
    /\ \E i \in ClusterFolderIdx : Len(root.subfolders[i].node.bookmarks) >= 2

\* C7: every input bookmark whose folder_path has the segment
\* "Bookmarks bar" has its URL in the output's Bookmarks Bar.
C7_BarSegmentReachesBar ==
    Returned =>
        \A i \in 1..Len(bookmarks) :
            InList(BAR_SEGMENT, InputValue(i).folder_path) =>
                \E b \in Entries(BarFolderIdx) : dicts[EntryId(b)].url = InputUrl(i)

\* such a bookmark was dropped by the deduplication as a later duplicate
C7_Witness ==
    /\ Returned
    /\ \E i \in 1..Len(bookmarks) :
          /\ InList(BAR_SEGMENT, InputValue(i).folder_path)
          /\ i \notin FirstOccurrences
          /\ \E e \in Entries(ClusterFolderIdx) : dicts[EntryId(e)].url = InputUrl(i)

\* host of a URL as the classifier reads it: netloc of the lower-cased URL
HostOf(url) == urlparse(lower(url))

\* C8: _is_frequently_used is true exactly when the folder_path has the
\* segment "Bookmarks bar" or the URL's host is in TOOL_DOMAINS; a class
\* keyword alone does not make it true.
C8_FrequentlyUsedRule ==
    cl_res # "none" =>
        /\ (cl_res = "true") <=>
              \/ InList(BAR_SEGMENT, cl_bm.folder_path)
              \/ HostOf(cl_bm.url).ok /\ HostOf(cl_bm.url).netloc \in TOOL_DOMAINS
        /\ /\ HasClassKeyword(lower(cl_bm.title), lower(cl_bm.url))
           /\ ~InList(BAR_SEGMENT, cl_bm.folder_path)
           /\ ~(HostOf(cl_bm.url).ok /\ HostOf(cl_bm.url).netloc \in TOOL_DOMAINS)
           => cl_res = "false"

\* a bookmark with a class keyword whose host is not a tool domain
C8_Witness ==
    /\ cl_res = "false"
    /\ HasClassKeyword(lower(cl_bm.title), lower(cl_bm.url))

\* b is a with "www." put in front of the host of its URL, all else equal
DiffersByWww(a, b) ==
    /\ a.title = b.title
    /\ a.folder_path = b.folder_path
    /\ urlparse(a.url).ok
    /\ urlparse(b.url).ok
    /\ urlparse(b.url).netloc = WWW_PREFIX \o urlparse(a.url).netloc
    /\ \E p \in 0..Len(a.url) :
          b.url = SubSeq(a.url, 1, p) \o WWW_PREFIX \o SubSeq(a.url, p + 1, Len(a.url))

\* C9: two bookmarks that differ only by a leading "www." of the URL host
\* receive the same frequently-used classification.
C9_WwwInsensitive ==
    cl_res # "none" =>
        \A b \in ClassifyInputs :
            DiffersByWww(cl_bm, b) \/ DiffersByWww(b, cl_bm) =>
                (_is_frequently_used(b) <=> cl_res = "true")

\* C10: every bookmark of the Bookmarks Bar is also in a cluster folder,
\* and the two copies and the input records share no dict and no
\* folder_path list, so that no change of one shows in another.
C10_IndependentCopies ==
    Returned =>
        \A b \in Entries(BarFolderIdx) :
            \E e \in Entries(ClusterFolderIdx) :
                /\ dicts[EntryId(e)].url = dicts[EntryId(b)].url
                /\ EntryId(e) # EntryId(b)
                /\ dicts[EntryId(e)].folder_path # dicts[EntryId(b)].folder_path
                /\ \A i \in 1..Len(bookmarks) :
                      /\ bookmarks[i] \notin {EntryId(e), EntryId(b)}
                      /\ dicts[bookmarks[i]].folder_path \notin
                            {dicts[EntryId(e)].folder_path, dicts[EntryId(b)].folder_path}

-----------------------------------------------------------------------------
(* C11 *)

\* the name a finished _generate_cluster_name call returned
Named == nm_res # <<>>

NameReturned == nm_res[1]

\* number of bookmarks of the cluster that carry the segment in folder_path
SegmentHolders(segment) ==
    Cardinality({i \in 1..Len(nm_bookmarks) :
                    InList(segment, nm_bookmarks[i].folder_path)})

\* C11: a cluster in which at least 40% of the bookmarks carry the
\* folder-path segment "Recipes" is named "Recipes", whatever the title
\* words and the other folder-path segments of its bookmarks.
C11_RecipesShareNamesCluster ==
    (Named /\ SegmentHolders(F_Recipes) * 10 >= Len(nm_bookmarks) * 4)
        => NameReturned = F_Recipes

-----------------------------------------------------------------------------
(* C12 *)

\* the lower-cased words of the titles that are no stop word and longer than
\* two characters, in order of occurrence
QualifyingWords(bms) ==
    SelectSeq(TitleWords(bms), LAMBDA w : w \notin COMMON_WORDS /\ Len(w) > 2)

WordCount(words, w) == Cardinality({i \in 1..Len(words) : words[i] = w})

FirstAt(words, w) ==
    CHOOSE i \in 1..Len(words) :
        words[i] = w /\ \A j \in 1..(i - 1) : words[j] # w

\* v is more frequent than w, or as frequent and met earlier
Precedes(words, v, w) ==
    \/ WordCount(words, v) > WordCount(words, w)
    \/ /\ WordCount(words, v) = WordCount(words, w)
       /\ FirstAt(words, v) < FirstAt(words, w)

\* the distinct words, most frequent first
RankedWords(words) ==
    LET set == {words[i] : i \in 1..Len(words)}
    IN [r \in 1..Cardinality(set) |->
          CHOOSE w \in set :
              Cardinality({v \in set : Precedes(words, v, w)}) = r - 1]

\* the word at position r of the ranking is appended to the primary name
IsSecondary(words, ranked, r) ==
    /\ r <= Len(ranked)
    /\ WordCount(words, ranked[r]) * 10 >= WordCount(words, ranked[1]) * 4
    /\ ~Contains(ranked[1], ranked[r])

AndSeparator == <<" ", "&", " ">>

SecondaryPart(words, ranked, r) ==
    IF IsSecondary(words, ranked, r)
    THEN AndSeparator \o capitalize(ranked[r])
    ELSE <<>>

\* number of bookmarks of the cluster that carry the segment, compared
\* without regard to case
SegmentShare(bms, segment) ==
    Cardinality({i \in 1..Len(bms) :
        \E k \in 1..Len(bms[i].folder_path) :
            lower(bms[i].folder_path[k]) = lower(segment)})

NoSegmentAtThreshold(bms) ==
    \A i \in 1..Len(bms) : \A k \in 1..Len(bms[i].folder_path) :
        SegmentShare(bms, bms[i].folder_path[k]) * 10 < Len(bms) * 4

-----------------------------------------------------------------------------
(* C13 *)

\* the normalized domain of a bookmark, empty when the URL has none or does
\* not parse
DomainOf(bm) ==
    IF urlparse(bm.url).ok THEN NormalizeDomain(urlparse(bm.url).netloc) ELSE <<>>

NoDomainData(bms) == \A i \in 1..Len(bms) : DomainOf(bms[i]) = <<>>

DomainShare(bms, domain) ==
    Cardinality({i \in 1..Len(bms) : DomainOf(bms[i]) = domain})

\* the domains no other domain of the cluster is more frequent than
MostFrequentDomains(bms) ==
    {DomainOf(bms[i]) : i \in
        {i \in 1..Len(bms) :
            /\ DomainOf(bms[i]) # <<>>
            /\ \A j \in 1..Len(bms) :
                  DomainOf(bms[j]) # <<>> =>
                      DomainShare(bms, DomainOf(bms[j]))
                          <= DomainShare(bms, DomainOf(bms[i]))}}

\* C13: a cluster with no qualifying title word and no folder-path segment
\* at the threshold is named by its most frequent normalized domain,
\* capitalized, and "Other" when its bookmarks carry no domain data (all URLs
\* empty or unparseable); the name is never empty.
C13_DomainOrOther ==
    (/\ Named
     /\ QualifyingWords(nm_bookmarks) = <<>>
     /\ NoSegmentAtThreshold(nm_bookmarks)) =>
        /\ NameReturned # <<>>
        /\ IF NoDomainData(nm_bookmarks)
           THEN NameReturned = OTHER_NAME
           ELSE \E d \in MostFrequentDomains(nm_bookmarks) :
                    NameReturned = capitalize(d)

-----------------------------------------------------------------------------
(* C14 *)

\* the fallback clustering of a _cluster_bookmarks call has ended
FallbackEnded == cb_pc \in {"fell_back", "raised"}

\* the first whitespace-delimited token of a signature, lower-cased; empty
\* when there is none
FirstToken(signature) ==
    IF split(signature) = <<>> THEN <<>> ELSE lower(split(signature)[1])

\* the category id the claim gives a signature
ClaimedLabel(signature) ==
    LET rows == {i \in 1..Len(DOMAIN_CATEGORIES) :
                    Contains(FirstToken(signature), DOMAIN_CATEGORIES[i].key)}
    IN IF \A i \in 1..Len(DOMAIN_CATEGORIES) : i \notin rows
       THEN CategoryOf(DEFAULT_KEY)
       ELSE DOMAIN_CATEGORIES[CHOOSE i \in rows : \A j \in rows : j >= i].value

\* C14: the fallback clustering labels every signature on its own: the
\* category id of the first keyword, in table order, that is a substring of
\* the signature's lower-cased first token, or the default category id when
\* no keyword matches.
C14_FallbackLabelsEachSignature ==
    FallbackEnded =>
        /\ cb_pc = "fell_back"
        /\ Len(cb_res) = Len(cb_features)
        /\ \A i \in 1..Len(cb_features) : cb_res[i] = ClaimedLabel(cb_features[i])

-----------------------------------------------------------------------------
(* C16 *)

\* the _cluster_bookmarks call has ended, by a return or by an exception
ClusterCallEnded == cb_pc \in {"clustered", "fell_back", "raised"}

\* C16: _cluster_bookmarks never aborts: for every list of signatures, blank
\* ones included, it returns one integer label per signature.
C16_ClusterBookmarksNeverAborts ==
    ClusterCallEnded =>
        /\ cb_pc # "raised"
        /\ DOMAIN cb_res = 1..Len(cb_features)
        /\ \A i \in 1..Len(cb_features) : cb_res[i] \in Nat

-----------------------------------------------------------------------------
(* C15 *)

\* the call was made on the three bookmarks of the example, in their order,
\* it took the except clause, and it has returned
ExampleReturnedByFallback ==
    /\ Returned
    /\ failure # "none"
    /\ [i \in 1..Len(bookmarks) |-> InputValue(i)]
          = <<E_MyRepo, E_OtherRepo, E_PythonDocs>>

\* the bookmark values held by the root subfolder at position i
FolderValues(i) ==
    [p \in 1..Len(root.subfolders[i].node.bookmarks) |->
        Deref(dicts, lists, root.subfolders[i].node.bookmarks[p])]

GITHUB_FOLDER == <<"G", "i", "t", "h", "u", "b">>
PYTHON_FOLDER == <<"D", "o", "c", "s", ".", "p", "y", "t", "h", "o", "n">>
GITHUB_KEY == <<"g", "i", "t", "h", "u", "b">>

-----------------------------------------------------------------------------
(* C17 *)

\* the nodes of the tree built by get_subfolder and add_bookmark calls
ExistingPaths == {path \in TreePaths : PathExists(root, path)}

IsPrefix(p, q) == Len(p) <= Len(q) /\ SubSeq(q, 1, Len(p)) = p

\* the bookmark entries <<node, position>> held at or below the node at p
EntriesBelow(p) ==
    {e \in ExistingPaths \X (1..MaxAdded + 1) :
        IsPrefix(p, e[1]) /\ e[2] <= Len(NodeAt(root, e[1]).bookmarks)}

DistinctInputUrls == {InputUrl(i) : i \in 1..Len(bookmarks)}

\* C17: in a tree built by get_subfolder and add_bookmark calls,
\* count_bookmarks of a node is the number of bookmark entries of the node
\* and its descendants and count_folders the number of nodes of its subtree;
\* for the tree suggest_organization returns, the root counts the distinct
\* input URLs plus the size of the Bookmarks Bar, and one folder more than
\* it has subfolders.
C17_Counts ==
    /\ pc = "tree" =>
          /\ \A p \in ExistingPaths :
                /\ count_bookmarks(NodeAt(root, p)) = Cardinality(EntriesBelow(p))
                /\ count_folders(NodeAt(root, p))
                      = Cardinality({q \in ExistingPaths : IsPrefix(p, q)})
          /\ count_bookmarks(root) = added
          /\ count_folders(root) = 1 + created
    /\ Returned =>
          /\ count_bookmarks(root)
                = Cardinality(DistinctInputUrls)
                    + Len(root.subfolders[BarIndex].node.bookmarks)
          /\ count_folders(root) = 1 + Len(root.subfolders)

\* a tree with a folder inside a folder, in which one bookmark is an entry
\* of two folders
C17_Witness ==
    /\ pc = "tree"
    /\ \E p \in ExistingPaths : Len(p) >= 2
    /\ \E p, q \in ExistingPaths :
          /\ p # q
          /\ NodeAt(root, p).bookmarks # <<>>
          /\ NodeAt(root, q).bookmarks # <<>>
          /\ NodeAt(root, p).bookmarks[1] = NodeAt(root, q).bookmarks[1]

-----------------------------------------------------------------------------
(* C18 *)

\* self.bookmarks as the caller sees it: the dict objects in their order,
\* each with the values of its fields
InputSnapshot ==
    [i \in 1..Len(bookmarks) |-> [object |-> bookmarks[i], fields |-> InputValue(i)]]

AllFolderIdx == 1..Len(root.subfolders)

\* C18: suggest_organization leaves its input unchanged: no step of the
\* call, on either path, changes the length, the order or a field value of
\* the input sequence, and no record of the tree is the same object as an
\* input record.
C18_InputUnchanged ==
    /\ [][InputSnapshot' = InputSnapshot]_vars
    /\ [](TreeBuilt =>
            \A e \in Entries(AllFolderIdx) :
                \A i \in 1..Len(bookmarks) : EntryId(e) # bookmarks[i])

\* a returned tree of the statistical path with copies both in a cluster
\* folder and in the Bookmarks Bar
C18_Witness ==
    /\ Returned
    /\ failure = "none"
    /\ Entries(BarFolderIdx) # {}
    /\ Entries(ClusterFolderIdx) # {}
    /\ Len(dicts) > Len(bookmarks)

-----------------------------------------------------------------------------
(* C19 *)

\* every upper-case character of the name is its first character or the
\* first one after " & "
CapitalizedParts(name) ==
    \A i \in 1..Len(name) :
        InList(name[i], UpperAlpha) =>
            \/ i = 1
            \/ i > 3 /\ SubSeq(name, i - 3, i - 1) = AndSeparator

\* C19: no cluster gets the folder name "Bookmarks Bar" (the names have an
\* upper-case character only at the start of a part), so filling the cluster
\* folders puts nothing into the Bookmarks Bar: every bookmark the Bookmarks
\* Bar holds is frequently used, and every cluster folder is non-empty.
C19_ClustersStayOutOfBookmarksBar ==
    /\ pc = "built" => root.subfolders[BarIndex].node.bookmarks = <<>>
    /\ TreeBuilt =>
          \A i \in ClusterFolderIdx :
              /\ root.subfolders[i].node.bookmarks # <<>>
              /\ CapitalizedParts(root.subfolders[i].key)
    /\ pc \in {"filled", "returned"} =>
          \A e \in Entries(BarFolderIdx) :
              \/ InList(BAR_SEGMENT, EntryValue(e).folder_path)
              \/ /\ HostOf(EntryValue(e).url).ok
                 /\ HostOf(EntryValue(e).url).netloc \in TOOL_DOMAINS

\* a cluster named "Bookmarks bar" after its folder-path segment, next to a
\* filled Bookmarks Bar
C19_Witness ==
    /\ Returned
    /\ \E i \in ClusterFolderIdx : root.subfolders[i].key = BAR_SEGMENT
    /\ Entries(BarFolderIdx) # {}
====
